---- MODULE Spec2Model ----
(***************************************************************************)
(* The order page of the bakery site (src/pages/Order.tsx): the cart, the  *)
(* order form, the pickup-date rules and the asynchronous submission.      *)
(*                                                                         *)
(* Strings the code inspects character by character (name, email, phone)   *)
(* are sequences of one-character strings.  A calendar date is the number  *)
(* of its day, day 0 being a Sunday, so Date.getDay() is (d % 7) and       *)
(* setDate(getDate() + n) is d + n.  An optional value (undefined in the   *)
(* code) is the empty set, a present value v is {v}.                       *)
(***************************************************************************)
EXTENDS Integers, Sequences, FiniteSets, TLC

VARIABLES
    searchItem,    \* searchParams.get('item'): {} or {id}
    cart,          \* useState<CartItem[]>: sequence of [id, name, price, quantity]
    form,          \* react-hook-form values (OrderFormValues)
    isSubmitting,  \* useState(false)
    now,           \* the clock read by new Date(): [date, hour]
    submissions,   \* onSubmit invocations between their start and their finally
    calls,         \* the collaborators the last step called
    opsInFlight,   \* user events handled since the oldest running submission began
    probe,         \* the last call of a pure helper: [fn, arg, result]
    lastOp         \* the handler that ran last, and how it ended

vars == <<searchItem, cart, form, isSubmitting, now, submissions, calls,
          opsInFlight, probe, lastOp>>

----------------------------------------------------------------------------
(* Bounds of the model *)

MaxQty == 1          \* largest quantity asked of a made-to-order item
MaxInFlightOps == 1  \* user events while a submission is running
MaxAhead == 14      \* how many days ahead of today the calendars are browsed
MaxLines == 2       \* lines of the carts formatOrderDetails is applied to

----------------------------------------------------------------------------
(* The menu catalog (useMenu): one in-stock item, one in-stock item that is *)
(* sold out, one made-to-order item.                                        *)

\* A JavaScript value held where a number is expected: a number, NaN,
\* undefined (a missing property), a string that spells the number n, or a
\* string that spells no number.
Num(n) == [kind |-> "number", value |-> n]
NaN == [kind |-> "NaN", value |-> 0]
Undefined == [kind |-> "undefined", value |-> 0]
NumericString(n) == [kind |-> "numeric string", value |-> n]
OtherString == [kind |-> "string", value |-> 0]

menuItems ==
    << [id |-> "a", name |-> "Apple Pie",  price |-> Num(3), madeToOrder |-> FALSE, stock |-> 2],
       [id |-> "z", name |-> "Zucchini Loaf", price |-> Num(2), madeToOrder |-> FALSE, stock |-> 0],
       [id |-> "m", name |-> "Macaron Tower", price |-> Num(5), madeToOrder |-> TRUE,  stock |-> 0] >>

MenuIds == { menuItems[i].id : i \in 1..Len(menuItems) }

\* menuItems.find(mi => mi.id === id): {} when undefined, else {the first match}
FindMenuItem(id) ==
    LET hits == { i \in 1..Len(menuItems) : menuItems[i].id = id }
    IN  IF hits = {} THEN {}
        ELSE { menuItems[CHOOSE i \in hits : \A j \in hits : i <= j] }

\* cart.find(cartItem => cartItem.id === id)
FindCartItem(c, id) ==
    LET hits == { i \in 1..Len(c) : c[i].id = id }
    IN  IF hits = {} THEN {}
        ELSE { c[CHOOSE i \in hits : \A j \in hits : i <= j] }

CartIds(c) == { c[i].id : i \in 1..Len(c) }

\* total quantity the cart holds of one menu item
RECURSIVE QuantityOf(_, _)
QuantityOf(c, id) ==
    IF c = <<>> THEN 0
    ELSE (IF Head(c).id = id THEN Head(c).quantity ELSE 0) + QuantityOf(Tail(c), id)

NewCartItem(item) ==
    [id |-> item.id, name |-> item.name, price |-> item.price, quantity |-> 1]

\* the effect without its cart.some test
ItemParamEffect_Unguarded(c) ==
    IF searchItem = {} THEN c
    ELSE LET itemId == CHOOSE x \in searchItem : TRUE
             found  == FindMenuItem(itemId)
         IN  IF found # {}
             THEN Append(c, NewCartItem(CHOOSE mi \in found : TRUE))
             ELSE c

\* useEffect([searchParams, cart]): after every render that changed the cart,
\* the item named in the URL is appended when the menu has it and the cart
\* does not.  It runs before the next event is handled, so it is part of the
\* handler that changed the cart.
ItemParamEffect(c) ==
    IF searchItem = {} THEN c
    ELSE LET itemId == CHOOSE x \in searchItem : TRUE
             found  == FindMenuItem(itemId)
         IN  IF found # {} /\ itemId \notin CartIds(c)
             THEN Append(c, NewCartItem(CHOOSE mi \in found : TRUE))
             ELSE c

----------------------------------------------------------------------------
(* formatOrderDetails: the two sub-orders and the total *)

IsInStockLine(line) ==
    LET found == FindMenuItem(line.id)
    IN  found # {} /\ ~(CHOOSE mi \in found : TRUE).madeToOrder

IsMadeToOrderLine(line) ==
    LET found == FindMenuItem(line.id)
    IN  found # {} /\ (CHOOSE mi \in found : TRUE).madeToOrder

\* x || 0 : 0 for the falsy values undefined, NaN and 0, else x (the strings
\* modelled are not empty, hence truthy)
OrZero(x) ==
    IF x.kind \in {"undefined", "NaN"} \/ (x.kind = "number" /\ x.value = 0)
    THEN Num(0) ELSE x

\* Number(x): a number is itself, a numeric string its number, undefined and
\* any other string NaN
Number(x) ==
    IF x.kind = "number" THEN x
    ELSE IF x.kind = "numeric string" THEN Num(x.value)
    ELSE NaN

\* x * n and x + y, NaN when an operand is NaN
Times(x, n) == IF x.kind = "number" THEN Num(x.value * n) ELSE NaN
Plus(x, y) ==
    IF x.kind = "number" /\ y.kind = "number" THEN Num(x.value + y.value) ELSE NaN

\* Number(item.price || 0) * item.quantity
LineTotal(item) == Times(Number(OrZero(item.price)), item.quantity)

\* cart.reduce((total, item) => total + LineTotal(item), 0)
RECURSIVE CartTotal(_)
CartTotal(c) ==
    IF c = <<>> THEN Num(0)
    ELSE Plus(CartTotal(SubSeq(c, 1, Len(c) - 1)), LineTotal(c[Len(c)]))

\* Number.prototype.toFixed(2)
toFixed(x) == IF x.kind = "number" THEN ToString(x.value) ELSE "NaN"

formatOrderDetails(c) ==
    [ inStockItems     |-> SelectSeq(c, IsInStockLine),
      madeToOrderItems |-> SelectSeq(c, IsMadeToOrderLine),
      cartTotal        |-> CartTotal(c) ]

----------------------------------------------------------------------------
(* Strings *)

Digits == {"0", "1", "2", "3", "4", "5", "6", "7", "8", "9"}
Letters == {"A", "l", "u", "d", "c", "o"}

IsSpace(ch) == ch = " "

\* String.prototype.trim
RECURSIVE TrimStart(_)
TrimStart(s) ==
    IF s # <<>> /\ IsSpace(Head(s)) THEN TrimStart(Tail(s)) ELSE s

RECURSIVE TrimEnd(_)
TrimEnd(s) ==
    IF s # <<>> /\ IsSpace(s[Len(s)]) THEN TrimEnd(SubSeq(s, 1, Len(s) - 1)) ELSE s

Trim(s) == TrimEnd(TrimStart(s))

IsDigit(ch) == ch \in Digits

\* String.prototype.slice(from, to) with 0 <= from, as formatPhoneNumber uses it
Slice(s, from, to) ==
    SubSeq(s, from + 1, IF to < Len(s) THEN to ELSE Len(s))

Dash == <<"-">>

formatPhoneNumber(value) ==
    LET digits == SelectSeq(value, IsDigit)
    IN  IF Len(digits) > 0
        THEN Slice(digits, 0, 3)
             \o (IF Len(digits) > 3 THEN Dash \o Slice(digits, 3, 6) ELSE <<>>)
             \o (IF Len(digits) > 6 THEN Dash \o Slice(digits, 6, 10) ELSE <<>>)
        ELSE <<>>

\* /^\d{3}-\d{3}-\d{4}$/.test(val)
PhonePattern(val) ==
    /\ Len(val) = 12
    /\ \A i \in 1..12 : IF i \in {4, 8} THEN val[i] = "-" ELSE IsDigit(val[i])

\* positions of "@" in s
AtSigns(s) == { i \in 1..Len(s) : s[i] = "@" }

\* a dot-separated run of non-empty labels of letters and digits
IsLabelChar(ch) == ch \in Letters \/ ch \in Digits

DottedLabels(s) ==
    /\ s # <<>>
    /\ s[1] # "." /\ s[Len(s)] # "."
    /\ \A i \in 1..Len(s) : IsLabelChar(s[i]) \/ s[i] = "."
    /\ \A i \in 1..(Len(s) - 1) : ~(s[i] = "." /\ s[i + 1] = ".")

\* length of the last label of a dotted name
LastLabelLen(s) ==
    LET dots == { i \in 1..Len(s) : s[i] = "." }
    IN  IF dots = {} THEN Len(s)
        ELSE Len(s) - (CHOOSE i \in dots : \A j \in dots : j <= i)

\* z.string().email(): local@domain, the domain of two or more labels, the
\* last label of two or more letters
ZodEmail(val) ==
    /\ Cardinality(AtSigns(val)) = 1
    /\ LET at     == CHOOSE i \in AtSigns(val) : TRUE
           local  == SubSeq(val, 1, at - 1)
           domain == SubSeq(val, at + 1, Len(val))
       IN  /\ DottedLabels(local)
           /\ DottedLabels(domain)
           /\ \E i \in 1..Len(domain) : domain[i] = "."
           /\ LastLabelLen(domain) >= 2
           /\ \A i \in (Len(domain) - LastLabelLen(domain) + 1)..Len(domain) :
                  domain[i] \in Letters

\* <input type="email"> constraint validation, which the browser runs before
\* it fires the form's submit event: an empty value is valid (the field is
\* not required), a non-empty one needs local@domain
NativeEmail(val) ==
    \/ val = <<>>
    \/ /\ Cardinality(AtSigns(val)) = 1
       /\ LET at == CHOOSE i \in AtSigns(val) : TRUE
          IN  /\ at > 1
              /\ DottedLabels(SubSeq(val, at + 1, Len(val)))

----------------------------------------------------------------------------
(* The form and its validation schema *)

PICKUP_TIMES ==
    << "9:00 AM", "9:30 AM", "10:00 AM", "10:30 AM",
       "11:00 AM", "11:30 AM", "12:00 PM", "12:30 PM",
       "1:00 PM", "1:30 PM", "2:00 PM", "2:30 PM",
       "3:00 PM", "3:30 PM", "4:00 PM", "4:30 PM",
       "5:00 PM" >>

defaultValues ==
    [ name |-> <<>>, email |-> <<>>, phone |-> <<>>,
      inStockPickupDate |-> {}, inStockPickupTime |-> {},
      madeToOrderPickupDate |-> {}, madeToOrderPickupTime |-> {},
      specialInstructions |-> <<>> ]

NameRule(val)  == Len(val) >= 2 /\ Len(Trim(val)) > 0
EmailRule(val) == ZodEmail(val) /\ Len(Trim(val)) > 0
PhoneRule(val) ==
    Len(val) >= 12 /\ Len(val) <= 12 /\ Len(Trim(val)) > 0 /\ PhonePattern(val)

\* orderFormSchema: z.date() and z.string() without .optional() reject undefined
orderFormSchema(data) ==
    /\ NameRule(data.name)
    /\ EmailRule(data.email)
    /\ PhoneRule(data.phone)
    /\ data.inStockPickupDate # {}
    /\ data.inStockPickupTime # {}
    /\ data.madeToOrderPickupDate # {}
    /\ data.madeToOrderPickupTime # {}

\* the predicate createValidationSchema hands to .refine
PickupRefinement(data, c) ==
    LET d == formatOrderDetails(c)
    IN  /\ Len(c) # 0
        /\ (Len(d.inStockItems) > 0
               => data.inStockPickupDate # {} /\ data.inStockPickupTime # {})
        /\ (Len(d.madeToOrderItems) > 0
               => data.madeToOrderPickupDate # {} /\ data.madeToOrderPickupTime # {})

\* createValidationSchema(): the parse succeeds when the object schema and
\* its refinement both do
createValidationSchema(data, c) ==
    orderFormSchema(data) /\ PickupRefinement(data, c)

----------------------------------------------------------------------------
(* Pickup dates *)

getDay(d) == d % 7

today == now.date
currentDay == getDay(now.date)
currentHour == now.hour

daysUntilNextSaturday == (6 - currentDay + 7) % 7
upcomingSaturday == today + daysUntilNextSaturday
saturdayAfterNext == upcomingSaturday + 7

\* the cutoff with "after 6 PM" read as later than the 18th hour
PastCutoff_HourAfter18(day, hour) == day > 3 \/ (day = 3 /\ hour > 18)

\* the cutoff with Thursday still open
PastCutoff_FromFriday(day, hour) == day > 4 \/ (day = 3 /\ hour >= 18)

\* no cutoff at all
PastCutoff_Never(day, hour) == FALSE

\* "If past Wednesday or Wednesday after 6 PM"
PastCutoff(day, hour) == day > 3 \/ (day = 3 /\ hour >= 18)

\* the module-level getAvailablePickupDates(hasMadeToOrderItems)
getAvailablePickupDates(hasMadeToOrderItems) ==
    IF hasMadeToOrderItems
    THEN IF PastCutoff(currentDay, currentHour) THEN saturdayAfterNext
         ELSE upcomingSaturday
    ELSE today + 1

hasMadeToOrderItems == Len(formatOrderDetails(cart).madeToOrderItems) > 0

\* the getAvailablePickupTimes() of OrderPage: its two literal lists
AllDayTimes ==
    << "9:00 AM", "9:30 AM", "10:00 AM", "10:30 AM",
       "11:00 AM", "11:30 AM", "12:00 PM", "12:30 PM",
       "1:00 PM", "1:30 PM", "2:00 PM", "2:30 PM",
       "3:00 PM", "3:30 PM", "4:00 PM", "4:30 PM",
       "5:00 PM", "5:30 PM", "6:00 PM" >>
NoonToSixTimes ==
    << "12:00 PM", "12:30 PM", "1:00 PM", "1:30 PM",
       "2:00 PM", "2:30 PM", "3:00 PM", "3:30 PM",
       "4:00 PM", "4:30 PM", "5:00 PM", "5:30 PM",
       "6:00 PM" >>
getAvailablePickupTimes ==
    IF hasMadeToOrderItems THEN AllDayTimes ELSE NoonToSixTimes

\* the getAvailablePickupDates(date) of OrderPage
OrderPage_getAvailablePickupDates(date) ==
    IF hasMadeToOrderItems
    THEN IF getDay(date) # 6 THEN FALSE
         ELSE IF PastCutoff(currentDay, currentHour) THEN date >= saturdayAfterNext
              ELSE date >= upcomingSaturday
    ELSE LET isWeekday == getDay(date) >= 1 /\ getDay(date) <= 5
             minPickupDate == today + 1
         IN  isWeekday /\ date >= minPickupDate

\* the same Calendar with fromDate set to now
InStockCalendarEnabled_FromToday(date) ==
    /\ date >= today
    /\ ~(getDay(date) = 0 \/ getDay(date) = 6)

\* the days the inStockPickupDate Calendar lets the user pick: fromDate is
\* now plus one day, Saturdays and Sundays are disabled
InStockCalendarEnabled(date) ==
    /\ date >= today + 1
    /\ ~(getDay(date) = 0 \/ getDay(date) = 6)

\* the days the madeToOrderPickupDate Calendar lets the user pick: fromDate
\* is the upcoming Saturday, every day but Saturday is disabled
MadeToOrderCalendarEnabled(date) ==
    /\ date >= upcomingSaturday
    /\ ~(getDay(date) # 6)

----------------------------------------------------------------------------
(* The notification payload and the order handed to the order log *)

BAKERY_EMAIL == <<"b", "@", "d", ".", "c", "o">>

NotApplicable == <<"Not applicable">>

\* format(date, 'MMMM d, yyyy')
format(date) == <<"MMMM d, yyyy", ToString(date)>>

The(opt) == CHOOSE v \in opt : TRUE

\* `${item.name} x${item.quantity} - $${(price * quantity).toFixed(2)}`, joined
ItemLines(items, ifNone) ==
    IF Len(items) > 0
    THEN [ i \in 1..Len(items) |->
             <<items[i].name, "x", ToString(items[i].quantity), "-", "$",
               toFixed(LineTotal(items[i]))>> ]
    ELSE << <<ifNone>> >>

templateParams(data, c) ==
    LET d == formatOrderDetails(c)
    IN  [ to_email       |-> data.email,
          customer_name  |-> data.name,
          customer_email |-> data.email,
          customer_phone |-> data.phone,
          in_stock_pickup_date |->
              IF data.inStockPickupDate # {}
              THEN format(The(data.inStockPickupDate)) ELSE NotApplicable,
          in_stock_pickup_time |->
              IF data.inStockPickupTime # {}
              THEN <<The(data.inStockPickupTime)>> ELSE NotApplicable,
          made_to_order_pickup_date |->
              IF data.madeToOrderPickupDate # {}
              THEN format(The(data.madeToOrderPickupDate)) ELSE NotApplicable,
          made_to_order_pickup_time |->
              IF data.madeToOrderPickupTime # {}
              THEN <<The(data.madeToOrderPickupTime)>> ELSE NotApplicable,
          special_instructions |->
              IF data.specialInstructions # <<>>
              THEN data.specialInstructions ELSE <<"None">>,
          in_stock_items      |-> ItemLines(d.inStockItems, "No in-stock items ordered"),
          made_to_order_items |-> ItemLines(d.madeToOrderItems, "No made-to-order items ordered"),
          total_amount        |-> <<"$", toFixed(Number(OrZero(d.cartTotal)))>> ]

\* the argument of addOrder
OrderOf(data, c) ==
    LET d == formatOrderDetails(c)
    IN  [ customerName  |-> data.name,
          customerEmail |-> data.email,
          customerPhone |-> data.phone,
          inStockItems     |-> d.inStockItems,
          madeToOrderItems |-> d.madeToOrderItems,
          inStockPickupDate     |-> data.inStockPickupDate,
          inStockPickupTime     |-> data.inStockPickupTime,
          madeToOrderPickupDate |-> data.madeToOrderPickupDate,
          madeToOrderPickupTime |-> data.madeToOrderPickupTime,
          total               |-> d.cartTotal,
          specialInstructions |-> data.specialInstructions,
          paymentMethod |-> "zelle",
          orderType     |-> "pickup",
          estimatedCompletionTime |-> data.inStockPickupDate ]

----------------------------------------------------------------------------
(* User events.  While a submission runs, at most MaxInFlightOps of them    *)
(* are explored.                                                            *)

\* detail: how the two sends stood when a submission was caught
OpWith(name, result, detail) == [op |-> name, result |-> result, detail |-> detail]
Op(name, result) == OpWith(name, result, <<>>)

NoProbe == [fn |-> "none", arg |-> <<>>, result |-> <<>>]

CanAct == Len(submissions) = 0 \/ opsInFlight < MaxInFlightOps

Tally == opsInFlight' = IF Len(submissions) = 0 THEN 0 ELSE opsInFlight + 1

\* what no user event touches
Backstage ==
    /\ calls' = {}
    /\ probe' = NoProbe
    /\ UNCHANGED <<searchItem, isSubmitting, now, submissions>>

\* setCart followed by the render's effect
SetCart(c) == cart' = ItemParamEffect(c)

\* !item.madeToOrder && item.stock <= 0
OutOfStock(item) == ~item.madeToOrder /\ item.stock <= 0

\* the stock-limit test with > in the place of >=
AtStockLimit_Above(item, existingItem) ==
    /\ ~item.madeToOrder
    /\ existingItem # {}
    /\ The(existingItem).quantity > item.stock

\* !item.madeToOrder && existingItem && existingItem.quantity >= item.stock
AtStockLimit(item, existingItem) ==
    /\ ~item.madeToOrder
    /\ existingItem # {}
    /\ The(existingItem).quantity >= item.stock

\* the increment with 2 in the place of 1
Incremented_ByTwo(cartItem) == [cartItem EXCEPT !.quantity = @ + 2]

\* { ...cartItem, quantity: cartItem.quantity + 1 }
Incremented(cartItem) == [cartItem EXCEPT !.quantity = @ + 1]

addToCart(item) ==
    /\ CanAct
    /\ item.madeToOrder => QuantityOf(cart, item.id) < MaxQty
    /\ LET existingItem == FindCartItem(cart, item.id)
       IN  IF OutOfStock(item)
           THEN /\ cart' = cart
                /\ lastOp' = Op("addToCart", "Out of stock")
           ELSE IF AtStockLimit(item, existingItem)
           THEN /\ cart' = cart
                /\ lastOp' = Op("addToCart", "Stock limit reached")
           ELSE /\ lastOp' = Op("addToCart", "Item added to cart")
                /\ IF existingItem # {}
                   THEN SetCart([ i \in 1..Len(cart) |->
                                    IF cart[i].id = item.id
                                    THEN Incremented(cart[i])
                                    ELSE cart[i] ])
                   ELSE SetCart(Append(cart, NewCartItem(item)))
    /\ Tally
    /\ UNCHANGED form
    /\ Backstage

WithoutId(line, id) == line.id # id

removeFromCart(id) ==
    /\ CanAct
    /\ SetCart(SelectSeq(cart, LAMBDA line : WithoutId(line, id)))
    /\ lastOp' = Op("removeFromCart", "removed")
    /\ Tally
    /\ UNCHANGED form
    /\ Backstage

\* the stock test with >= in the place of >
StockCheck_AtLeast(found, quantity) ==
    IF found = {} THEN "TypeError"
    ELSE IF ~The(found).madeToOrder /\ quantity >= The(found).stock
         THEN "Stock limit reached"
         ELSE "ok"

\* the removal test with < 0 in the place of < 1
BelowOne_BelowZero(quantity) == quantity < 0

\* if (quantity < 1)
BelowOne(quantity) == quantity < 1

\* !menuItem?.madeToOrder && quantity > menuItem!.stock : reading .stock of
\* an undefined menuItem throws a TypeError out of the handler
StockCheck(found, quantity) ==
    IF found = {} THEN "TypeError"
    ELSE IF ~The(found).madeToOrder /\ quantity > The(found).stock
         THEN "Stock limit reached"
         ELSE "ok"

updateQuantity(id, quantity) ==
    /\ CanAct
    /\ IF BelowOne(quantity)
       THEN /\ SetCart(SelectSeq(cart, LAMBDA line : WithoutId(line, id)))
            /\ lastOp' = Op("updateQuantity", "removed")
       ELSE LET check == StockCheck(FindMenuItem(id), quantity)
            IN  IF check # "ok"
                THEN /\ cart' = cart
                     /\ lastOp' = Op("updateQuantity", check)
                ELSE /\ SetCart([ i \in 1..Len(cart) |->
                                    IF cart[i].id = id
                                    THEN [cart[i] EXCEPT !.quantity = quantity]
                                    ELSE cart[i] ])
                     /\ lastOp' = Op("updateQuantity", "updated")
    /\ Tally
    /\ UNCHANGED form
    /\ Backstage

\* a field's onChange
SetField(field, value) ==
    /\ CanAct
    /\ form' = [form EXCEPT ![field] = value]
    /\ lastOp' = Op("onChange", "")
    /\ Tally
    /\ UNCHANGED cart
    /\ Backstage

typeName(value)  == SetField("name", value)
typeEmail(value) == SetField("email", value)
typePhone(value) == SetField("phone", formatPhoneNumber(value))
\* (the special-instructions textarea is left at its default: no rule reads it)

\* the pickup fields of a sub-order are rendered while the sub-order has lines
inStockFieldsShown == Len(formatOrderDetails(cart).inStockItems) > 0
madeToOrderFieldsShown == Len(formatOrderDetails(cart).madeToOrderItems) > 0

selectInStockPickupDate(date) ==
    /\ inStockFieldsShown
    /\ InStockCalendarEnabled(date)
    /\ SetField("inStockPickupDate", {date})

\* PICKUP_TIMES.map(time => <SelectItem value={time}>) in both Selects
Elements(seq) == { seq[i] : i \in 1..Len(seq) }
inStockTimeOptions == Elements(PICKUP_TIMES)
madeToOrderTimeOptions == Elements(PICKUP_TIMES)

selectInStockPickupTime(time) ==
    /\ inStockFieldsShown
    /\ time \in inStockTimeOptions
    /\ SetField("inStockPickupTime", {time})

selectMadeToOrderPickupDate(date) ==
    /\ madeToOrderFieldsShown
    /\ MadeToOrderCalendarEnabled(date)
    /\ SetField("madeToOrderPickupDate", {date})

selectMadeToOrderPickupTime(time) ==
    /\ madeToOrderFieldsShown
    /\ time \in madeToOrderTimeOptions
    /\ SetField("madeToOrderPickupTime", {time})

----------------------------------------------------------------------------
(* Submission: onSubmit up to its first await, then one step per promise    *)
(* that settles, each with the continuation it resumes.                     *)

\* the guard without its isSubmitting test
ShouldReturn_WithoutFlag == Len(cart) = 0

\* the guard without its empty-cart test
ShouldReturn_WithoutEmptyTest == isSubmitting

\* if (isSubmitting || cart.length === 0) return;
ShouldReturn == isSubmitting \/ Len(cart) = 0

\* Promise.allSettled in the place of Promise.all: a rejection is not thrown
PromiseAll_AllSettled(customer, bakery) ==
    IF customer = "pending" \/ bakery = "pending" THEN "pending" ELSE "fulfilled"

\* Promise.all over the two sends: rejected as soon as one rejects,
\* fulfilled once both are
PromiseAll(customer, bakery) ==
    IF customer = "rejected" \/ bakery = "rejected" THEN "rejected"
    ELSE IF customer = "fulfilled" /\ bakery = "fulfilled" THEN "fulfilled"
    ELSE "pending"

Without(seq, i) == SubSeq(seq, 1, i - 1) \o SubSeq(seq, i + 1, Len(seq))

\* the form's onSubmit handler; the browser fires the submit event only when
\* the email input passes its constraint validation
onSubmit ==
    /\ CanAct
    /\ NativeEmail(form.email)
    /\ LET data == form
       IN  IF ShouldReturn
           THEN /\ lastOp' = Op("onSubmit", "return")
                /\ Tally
                /\ calls' = {}
                /\ UNCHANGED <<isSubmitting, submissions>>
           ELSE /\ isSubmitting' = TRUE
                /\ submissions' = Append(submissions,
                       [ cart |-> cart, data |-> data,
                         templateParams |-> templateParams(data, cart),
                         customer |-> "pending", bakery |-> "pending",
                         order |-> {} ])
                /\ calls' = {"emailjs.send customer", "emailjs.send bakery"}
                /\ opsInFlight' = 0
                /\ lastOp' = Op("onSubmit", "sending")
    /\ probe' = NoProbe
    /\ UNCHANGED <<searchItem, cart, form, now>>

\* a catch that also empties the cart
Failed_ClearsCart(i, detail) ==
    /\ submissions' = Without(submissions, i)
    /\ isSubmitting' = FALSE
    /\ lastOp' = OpWith("onSubmit", "Error", detail)
    /\ calls' = {}
    /\ SetCart(<<>>)
    /\ UNCHANGED form

\* catch and finally
Failed(i, detail) ==
    /\ submissions' = Without(submissions, i)
    /\ isSubmitting' = FALSE
    /\ lastOp' = OpWith("onSubmit", "Error", detail)
    /\ calls' = {}
    /\ UNCHANGED <<cart, form>>

\* one emailjs.send promise settles
sendSettles(i, who, outcome) ==
    /\ submissions[i].order = {}
    /\ submissions[i][who] = "pending"
    /\ LET sub == [submissions[i] EXCEPT ![who] = outcome]
           all == PromiseAll(sub.customer, sub.bakery)
       IN  IF all = "rejected"
           THEN Failed(i, <<sub.customer, sub.bakery>>)
           ELSE IF all = "fulfilled"
           THEN /\ submissions' = [submissions EXCEPT
                       ![i] = [sub EXCEPT !.order = {OrderOf(sub.data, sub.cart)}]]
                /\ calls' = {"addOrder"}
                /\ lastOp' = Op("onSubmit", "addOrder")
                /\ UNCHANGED <<cart, form, isSubmitting>>
           ELSE /\ submissions' = [submissions EXCEPT ![i] = sub]
                /\ lastOp' = Op("emailjs.send", outcome)
                /\ calls' = {}
                /\ UNCHANGED <<cart, form, isSubmitting>>
    /\ opsInFlight' = IF Len(submissions') = 0 THEN 0 ELSE opsInFlight
    /\ probe' = NoProbe
    /\ UNCHANGED <<searchItem, now>>

\* the addOrder promise settles
addOrderSettles(i, outcome) ==
    /\ submissions[i].order # {}
    /\ IF outcome = "fulfilled"
       THEN /\ form' = defaultValues
            /\ SetCart(<<>>)
            /\ submissions' = Without(submissions, i)
            /\ isSubmitting' = FALSE
            /\ lastOp' = Op("onSubmit", "Order received!")
            /\ calls' = {}
       ELSE Failed(i, <<submissions[i].customer, submissions[i].bakery, "addOrder rejected">>)
    /\ opsInFlight' = IF Len(submissions') = 0 THEN 0 ELSE opsInFlight
    /\ probe' = NoProbe
    /\ UNCHANGED <<searchItem, now>>

Settled == {"fulfilled", "rejected"}

----------------------------------------------------------------------------
(* The order page in one session: the clock stands still, the URL names no  *)
(* item.                                                                    *)

Mounted ==
    /\ cart = ItemParamEffect(<<>>)
    /\ form = defaultValues
    /\ isSubmitting = FALSE
    /\ submissions = <<>>
    /\ calls = {}
    /\ opsInFlight = 0
    /\ probe = NoProbe
    /\ lastOp = Op("mount", "")

\* what the user types and picks
NameInputs  == { <<>>, <<"A", "l">> }
EmailInputs == { <<>>, <<"u", "@", "d", ".", "c", "o">> }
PhoneInputs == { <<>>, <<"5", "5", "5", "1", "2", "3", "4", "5", "6", "7">> }
TimeInputs  == { PICKUP_TIMES[7] }
DateInputs  == { today + 1, today + 3 }

Init ==
    /\ searchItem = {}
    /\ now = [date |-> 3, hour |-> 17]
    /\ Mounted

CartEvent ==
    \/ \E i \in 1..Len(menuItems) : addToCart(menuItems[i])
    \/ \E i \in 1..Len(cart) : removeFromCart(cart[i].id)
    \/ \E i \in 1..Len(cart) :
          \E quantity \in {cart[i].quantity - 1, cart[i].quantity + 1} :
             /\ IsMadeToOrderLine(cart[i]) => quantity <= MaxQty
             /\ updateQuantity(cart[i].id, quantity)

FormEvent ==
    \/ \E v \in NameInputs : typeName(v)
    \/ \E v \in EmailInputs : typeEmail(v)
    \/ \E v \in PhoneInputs : typePhone(v)
    \/ \E d \in DateInputs : selectInStockPickupDate(d)
    \/ \E t \in TimeInputs : selectInStockPickupTime(t)
    \/ \E d \in DateInputs : selectMadeToOrderPickupDate(d)
    \/ \E t \in TimeInputs : selectMadeToOrderPickupTime(t)

SubmitEvent ==
    \/ onSubmit
    \/ \E i \in 1..Len(submissions) : \E who \in {"customer", "bakery"} :
          \E outcome \in Settled : sendSettles(i, who, outcome)
    \/ \E i \in 1..Len(submissions) : \E outcome \in Settled :
          addOrderSettles(i, outcome)

Next == CartEvent \/ FormEvent \/ SubmitEvent

Spec == Init /\ [][Next]_vars

----------------------------------------------------------------------------
(* The cart alone, for every kind of item the URL can name: an in-stock     *)
(* item, the sold-out item, a made-to-order item, an id the menu lacks.     *)

SearchInputs == { {}, {"a"}, {"z"}, {"m"}, {"x"} }

InitCart ==
    /\ searchItem \in SearchInputs
    /\ now = [date |-> 3, hour |-> 17]
    /\ Mounted

NextCart == CartEvent

SpecCart == InitCart /\ [][NextCart]_vars

----------------------------------------------------------------------------
(* The pickup-date rules at every day of the week and hour of the day, for  *)
(* a cart of in-stock lines and for a cart of made-to-order lines.          *)

\* a call of the module-level getAvailablePickupDates
callGetAvailablePickupDates(flag) ==
    /\ probe' = [ fn |-> "getAvailablePickupDates", arg |-> <<flag>>,
                  result |-> <<getAvailablePickupDates(flag)>> ]
    /\ lastOp' = Op("call", "getAvailablePickupDates")
    /\ UNCHANGED <<searchItem, cart, form, isSubmitting, now, submissions, calls,
                   opsInFlight>>

\* a call of OrderPage's getAvailablePickupDates
callOrderPage_getAvailablePickupDates(date) ==
    /\ probe' = [ fn |-> "OrderPage.getAvailablePickupDates", arg |-> <<date>>,
                  result |-> <<OrderPage_getAvailablePickupDates(date)>> ]
    /\ lastOp' = Op("call", "OrderPage.getAvailablePickupDates")
    /\ UNCHANGED <<searchItem, cart, form, isSubmitting, now, submissions, calls,
                   opsInFlight>>

CalendarDays == today .. (today + MaxAhead)

InitDates ==
    /\ searchItem = {}
    /\ now \in [date : 0..6, hour : 0..23]
    /\ cart \in { <<NewCartItem(menuItems[1])>>, <<NewCartItem(menuItems[3])>> }
    /\ form = defaultValues
    /\ isSubmitting = FALSE
    /\ submissions = <<>>
    /\ calls = {}
    /\ opsInFlight = 0
    /\ probe = NoProbe
    /\ lastOp = Op("mount", "")

NextDates ==
    \/ \E d \in CalendarDays : selectInStockPickupDate(d)
    \/ \E d \in CalendarDays : selectMadeToOrderPickupDate(d)
    \/ \E flag \in BOOLEAN : callGetAvailablePickupDates(flag)
    \/ \E d \in CalendarDays : callOrderPage_getAvailablePickupDates(d)

SpecDates == InitDates /\ [][NextDates]_vars

----------------------------------------------------------------------------
(* The whole page, opened from a menu link: the URL names the made-to-order *)
(* item.                                                                    *)

InitLinked ==
    /\ searchItem = {"m"}
    /\ now = [date |-> 3, hour |-> 17]
    /\ Mounted

SpecLinked == InitLinked /\ [][Next]_vars

----------------------------------------------------------------------------
(* The pickup-time Selects, for a cart of in-stock lines, a cart of         *)
(* made-to-order lines and a cart of both.                                  *)

\* a call of OrderPage's getAvailablePickupTimes
callGetAvailablePickupTimes ==
    /\ probe' = [ fn |-> "getAvailablePickupTimes", arg |-> <<>>,
                  result |-> <<getAvailablePickupTimes>> ]
    /\ lastOp' = Op("call", "getAvailablePickupTimes")
    /\ UNCHANGED <<searchItem, cart, form, isSubmitting, now, submissions, calls,
                   opsInFlight>>

\* every time label the page's code holds
TimeLabels == Elements(PICKUP_TIMES) \cup Elements(AllDayTimes) \cup Elements(NoonToSixTimes)

InitTimes ==
    /\ searchItem = {}
    /\ now = [date |-> 3, hour |-> 17]
    /\ cart \in { <<NewCartItem(menuItems[1])>>, <<NewCartItem(menuItems[3])>>,
                  <<NewCartItem(menuItems[1]), NewCartItem(menuItems[3])>> }
    /\ form = defaultValues
    /\ isSubmitting = FALSE
    /\ submissions = <<>>
    /\ calls = {}
    /\ opsInFlight = 0
    /\ probe = NoProbe
    /\ lastOp = Op("mount", "")

NextTimes ==
    \/ \E t \in TimeLabels : selectInStockPickupTime(t)
    \/ \E t \in TimeLabels : selectMadeToOrderPickupTime(t)
    \/ callGetAvailablePickupTimes

SpecTimes == InitTimes /\ [][NextTimes]_vars

----------------------------------------------------------------------------
(* The cart handlers and formatOrderDetails on carts of every composition:  *)
(* lines of an in-stock item, of a made-to-order item and of an item the    *)
(* menu no longer has, each with a price as the catalogue data gave it.     *)

\* a call of formatOrderDetails(cart, menuItems)
callFormatOrderDetails ==
    /\ probe' = [ fn |-> "formatOrderDetails", arg |-> <<cart>>,
                  result |-> <<formatOrderDetails(cart)>> ]
    /\ lastOp' = Op("call", "formatOrderDetails")
    /\ UNCHANGED <<searchItem, cart, form, isSubmitting, now, submissions, calls,
                   opsInFlight>>

LineIds == {"a", "m", "x"}
LinePrices == {Num(3), NaN, Undefined, NumericString(2), OtherString}
Lines ==
    { [id |-> id, name |-> id, price |-> price, quantity |-> quantity] :
        id \in LineIds, price \in LinePrices, quantity \in 1..MaxQty }

\* the carts of at most n lines, no two lines of one id
RECURSIVE CartsUpTo(_)
CartsUpTo(n) ==
    IF n = 0 THEN { <<>> }
    ELSE CartsUpTo(n - 1) \cup
         { Append(c, line) : c \in { d \in CartsUpTo(n - 1) : Len(d) = n - 1 },
                             line \in Lines }

InitLines ==
    /\ searchItem \in { {}, {"m"} }
    /\ now = [date |-> 3, hour |-> 17]
    /\ cart \in { ItemParamEffect(c) :
                    c \in { d \in CartsUpTo(MaxLines) :
                              Cardinality(CartIds(d)) = Len(d) } }
    /\ form = defaultValues
    /\ isSubmitting = FALSE
    /\ submissions = <<>>
    /\ calls = {}
    /\ opsInFlight = 0
    /\ probe = NoProbe
    /\ lastOp = Op("mount", "")

NextLines ==
    \/ \E id \in LineIds : \E quantity \in (-1)..(MaxQty + 1) :
          updateQuantity(id, quantity)
    \/ \E id \in LineIds : removeFromCart(id)
    \/ callFormatOrderDetails

SpecLines == InitLines /\ [][NextLines]_vars

----------------------------------------------------------------------------
(* Claims *)

OverStock(c) ==
    { i \in 1..Len(menuItems) :
        ~menuItems[i].madeToOrder /\ QuantityOf(c, menuItems[i].id) > menuItems[i].stock }

\* C1: in every reachable state, the cart holds of no in-stock item more
\* than the item's stock.
C1_CartWithinStock == OverStock(cart) = {}

\* C2: when a send rejects, that step leaves the cart and the form as they
\* were, calls no collaborator and ends the submission; and addOrder is
\* called only in a step that leaves both sends of its submission fulfilled.
C2_FailedSendRecordsNothing ==
    [][ /\ \A i \in 1..Len(submissions) : \A who \in {"customer", "bakery"} :
             sendSettles(i, who, "rejected")
                => /\ cart' = cart
                   /\ form' = form
                   /\ calls' = {}
                   /\ submissions' = Without(submissions, i)
        /\ "addOrder" \in calls'
             => \E i \in 1..Len(submissions') :
                   /\ submissions'[i].order # {}
                   /\ submissions[i].order = {}
                   /\ submissions'[i].customer = "fulfilled"
                   /\ submissions'[i].bakery = "fulfilled" ]_vars

\* C2 witness: a submission was caught with the customer send fulfilled and
\* the bakery send rejected, and the cart still holds its lines.
C2_Witness ==
    /\ lastOp = OpWith("onSubmit", "Error", <<"fulfilled", "rejected">>)
    /\ Len(cart) > 0
    /\ calls = {}

\* C3: at most one onSubmit invocation is between its start and its finally.
C3_OneSubmissionAtATime == Len(submissions) <= 1

\* C3 witness: the handler ran while a submission was in flight and returned.
C3_Witness ==
    /\ lastOp = Op("onSubmit", "return")
    /\ Len(submissions) = 1
    /\ Len(cart) > 0

\* C4: an onSubmit step taken with an empty cart calls no collaborator and
\* starts no submission.
C4_EmptyCartRejected ==
    [][ (onSubmit /\ Len(cart) = 0)
          => /\ calls' = {}
             /\ submissions' = submissions
             /\ isSubmitting' = isSubmitting ]_vars

\* C4 witness: the handler ran on an empty cart, nothing in flight.
C4_Witness ==
    /\ lastOp = Op("onSubmit", "return")
    /\ Len(cart) = 0
    /\ Len(submissions) = 0
    /\ calls = {}

\* the contact rules as the claim words them
ContactValid(data) ==
    /\ Len(Trim(data.name)) >= 2
    /\ data.email # <<>> /\ ZodEmail(data.email)
    /\ PhonePattern(data.phone)

\* C5: an onSubmit step calls the notification sends only if the contact
\* fields are valid.
C5_InvalidContactBlocksSends ==
    [][ (onSubmit /\ calls' # {}) => ContactValid(form) ]_vars

\* C6: an onSubmit step calls the collaborators only if every non-empty
\* sub-order has both its pickup date and its pickup time.
C6_PickupPairRequired ==
    [][ (onSubmit /\ calls' # {})
          => /\ inStockFieldsShown
                  => form.inStockPickupDate # {} /\ form.inStockPickupTime # {}
             /\ madeToOrderFieldsShown
                  => form.madeToOrderPickupDate # {} /\ form.madeToOrderPickupTime # {}
      ]_vars

MadeToOrderOnly(c) ==
    /\ Len(formatOrderDetails(c).madeToOrderItems) > 0
    /\ Len(formatOrderDetails(c).inStockItems) = 0

InStockPairAbsent(data) ==
    data.inStockPickupDate = {} /\ data.inStockPickupTime = {}

\* C7, the payload half: a submission of a made-to-order-only cart without
\* an in-stock pair reports that pair as "Not applicable".
C7_PayloadNotApplicable ==
    \A i \in 1..Len(submissions) :
        (MadeToOrderOnly(submissions[i].cart) /\ InStockPairAbsent(submissions[i].data))
           => /\ submissions[i].templateParams.in_stock_pickup_date = NotApplicable
              /\ submissions[i].templateParams.in_stock_pickup_time = NotApplicable

\* C7: with only made-to-order lines in the cart, the validation schema
\* accepts a form whose in-stock pair is absent once the contact fields and
\* the made-to-order pair are in order, and the payload reports the in-stock
\* pair as "Not applicable".
C7_MadeToOrderOnly ==
    /\ ( /\ MadeToOrderOnly(cart)
         /\ InStockPairAbsent(form)
         /\ NameRule(form.name) /\ EmailRule(form.email) /\ PhoneRule(form.phone)
         /\ form.madeToOrderPickupDate # {} /\ form.madeToOrderPickupTime # {} )
          => createValidationSchema(form, cart)
    /\ C7_PayloadNotApplicable

\* what the last call of a helper returned, when it was this call
Returned(fn, arg, result) ==
    (probe.fn = fn /\ probe.arg = <<arg>>) => probe.result = <<result>>

\* OrderPage's getAvailablePickupDates accepts, of the days browsed, exactly
\* the Saturdays from `first` on
AcceptsSaturdaysFrom(first) ==
    \A d \in CalendarDays :
        /\ OrderPage_getAvailablePickupDates(d) <=> (getDay(d) = 6 /\ d >= first)
        /\ Returned("OrderPage.getAvailablePickupDates", d, getDay(d) = 6 /\ d >= first)

\* C8: on a Wednesday the made-to-order date is the Saturday 3 days ahead
\* before 18:00 and the Saturday 10 days ahead from 18:00 on, for the
\* module's function and for OrderPage's.
C8_WednesdayCutoff ==
    currentDay = 3 =>
        LET eligible == IF currentHour < 18 THEN today + 3 ELSE today + 10
        IN  /\ getAvailablePickupDates(TRUE) = eligible
            /\ Returned("getAvailablePickupDates", TRUE, eligible)
            /\ hasMadeToOrderItems => AcceptsSaturdaysFrom(eligible)

\* C8 witness: the function was called on a Wednesday at 18:00 and returned
\* the Saturday 10 days ahead.
C8_Witness ==
    /\ currentDay = 3 /\ currentHour = 18
    /\ probe.fn = "getAvailablePickupDates"
    /\ probe.arg = <<TRUE>>
    /\ probe.result = <<today + 10>>

\* C9: on a Thursday, at every hour, the made-to-order date is the Saturday
\* 9 days ahead, and the Saturday 2 days ahead is refused.
C9_ThursdaySkipsSaturday ==
    currentDay = 4 =>
        /\ getAvailablePickupDates(TRUE) = today + 9
        /\ Returned("getAvailablePickupDates", TRUE, today + 9)
        /\ hasMadeToOrderItems =>
              /\ ~OrderPage_getAvailablePickupDates(today + 2)
              /\ AcceptsSaturdaysFrom(today + 9)

\* C9 witness: OrderPage's function was asked on a Thursday about the
\* Saturday 2 days ahead and refused it.
C9_Witness ==
    /\ currentDay = 4
    /\ hasMadeToOrderItems
    /\ probe.fn = "OrderPage.getAvailablePickupDates"
    /\ probe.arg = <<today + 2>>
    /\ probe.result = <<FALSE>>

\* C10: every date the made-to-order calendar lets the user pick is a
\* Saturday not before the Saturday the cutoff rule makes eligible.
C10_CalendarHonoursCutoff ==
    [][ \A d \in CalendarDays :
          selectMadeToOrderPickupDate(d)
             => getDay(d) = 6 /\ d >= getAvailablePickupDates(TRUE) ]_vars

----------------------------------------------------------------------------
\* C11 as stated: every date accepted as an in-stock pickup date is a
\* Monday-Friday date strictly after tomorrow.  The Calendar and OrderPage's
\* getAvailablePickupDates both accept tomorrow itself, and the module-level
\* getAvailablePickupDates returns tomorrow as the earliest date.
IsWeekday(d) == getDay(d) \in 1..5

\* the dates OrderPage's getAvailablePickupDates has accepted for a cart of
\* in-stock lines, and the earliest in-stock date the module's function has
\* returned
AcceptedByCall ==
    IF probe.fn = "OrderPage.getAvailablePickupDates"
    THEN IF ~hasMadeToOrderItems /\ probe.result = <<TRUE>>
         THEN {probe.arg[1]} ELSE {}
    ELSE {}
EarliestByCall ==
    IF probe.fn = "getAvailablePickupDates"
    THEN IF probe.arg = <<FALSE>> THEN {probe.result[1]} ELSE {}
    ELSE {}

C11_StrictlyAfterTomorrow ==
    /\ \A d \in form.inStockPickupDate : IsWeekday(d) /\ d > today + 1
    /\ \A d \in AcceptedByCall : IsWeekday(d) /\ d > today + 1
    /\ \A d \in EarliestByCall : d > today + 1

\* C11: every date accepted as an in-stock pickup date is a Monday-Friday
\* date that is tomorrow or later; Saturdays, Sundays and every date before
\* tomorrow are rejected, by the Calendar and by OrderPage's
\* getAvailablePickupDates alike, and the module-level function gives
\* tomorrow as the earliest date.
C11_WeekdayFromTomorrow ==
    /\ \A d \in form.inStockPickupDate : IsWeekday(d) /\ d >= today + 1
    /\ \A d \in CalendarDays :
          (~IsWeekday(d) \/ d < today + 1)
             => /\ ~InStockCalendarEnabled(d)
                /\ ~hasMadeToOrderItems => ~OrderPage_getAvailablePickupDates(d)
    /\ \A d \in AcceptedByCall : IsWeekday(d) /\ d >= today + 1
    /\ \A d \in EarliestByCall : d = today + 1

\* tomorrow, a weekday, has been picked as the in-stock pickup date
C11_Witness ==
    /\ lastOp = Op("onChange", "")
    /\ form.inStockPickupDate = {today + 1}
    /\ IsWeekday(today + 1)

----------------------------------------------------------------------------
\* the label of a time of day given in minutes after midnight, as the page
\* writes it: "9:00 AM", "12:30 PM", "6:00 PM"
ClockLabel(minutes) ==
    LET h24 == minutes \div 60
        h12 == IF h24 % 12 = 0 THEN 12 ELSE h24 % 12
    IN  ToString(h12) \o ":" \o (IF minutes % 60 = 0 THEN "00" ELSE "30")
           \o " " \o (IF h24 < 12 THEN "AM" ELSE "PM")

\* the half-hour grid from fromHour:00 to toHour:00 inclusive
HalfHourGrid(fromHour, toHour) ==
    { ClockLabel(30 * k) : k \in (2 * fromHour)..(2 * toHour) }

\* C12: the pickup times offered for the in-stock sub-order are exactly the
\* half-hour grid from 12:00 PM to 6:00 PM (13 slots), and no time outside
\* that grid is ever selected for in-stock items.
C12_InStockNoonToSix ==
    /\ \A t \in form.inStockPickupTime : t \in HalfHourGrid(12, 18)
    /\ inStockFieldsShown =>
          /\ inStockTimeOptions = HalfHourGrid(12, 18)
          /\ Cardinality(inStockTimeOptions) = 13

\* C13: the pickup times offered for the made-to-order sub-order are exactly
\* the half-hour grid from 9:00 AM to 6:00 PM (19 slots).
C13_MadeToOrderNineToSix ==
    madeToOrderFieldsShown =>
        /\ madeToOrderTimeOptions = HalfHourGrid(9, 18)
        /\ Cardinality(madeToOrderTimeOptions) = 19

----------------------------------------------------------------------------
CartOps == {"addToCart", "removeFromCart", "updateQuantity"}

\* C14: the step that completes a successful submission leaves the cart
\* empty and every form field at its default, and from then on an empty cart
\* gets a line only by a cart action of the user.
C14_ClearedAfterSuccess ==
    [][ /\ lastOp' = Op("onSubmit", "Order received!")
             => (cart' = <<>> /\ form' = defaultValues)
        /\ (cart = <<>> /\ cart' # <<>>) => lastOp'.op \in CartOps
      ]_vars

----------------------------------------------------------------------------
\* the step in which submission i fails: a send rejects or addOrder rejects
Fails(i) ==
    \/ \E who \in {"customer", "bakery"} : sendSettles(i, who, "rejected")
    \/ addOrderSettles(i, "rejected")

\* C15 as stated: after a failed submission the cart and the form equal the
\* cart and the form the submission started with.
C15_AsBeforeSubmission ==
    [][ \A i \in 1..Len(submissions) :
          Fails(i) => /\ cart' = submissions[i].cart
                      /\ form' = submissions[i].data ]_vars

\* C15: the step in which a submission fails, by a send or by the log write,
\* changes neither the cart nor the form, so that they are as the submission
\* found them unless the user edited them while it was in flight; it ends
\* the submission and puts isSubmitting back to FALSE, so that onSubmit
\* passes its guard again whenever the cart is not empty.
C15_FailureLeavesState ==
    [][ \A i \in 1..Len(submissions) :
          Fails(i) => /\ cart' = cart
                      /\ form' = form
                      /\ opsInFlight = 0
                           => /\ cart' = submissions[i].cart
                              /\ form' = submissions[i].data
                      /\ isSubmitting' = FALSE
                      /\ submissions' = <<>>
                      /\ opsInFlight' = 0
                      /\ Len(cart') > 0 => ~ShouldReturn'
      ]_vars

\* C15 witness: the log write rejected after both sends went out; the cart
\* still holds its lines and nothing is in flight.
C15_Witness ==
    /\ lastOp = OpWith("onSubmit", "Error", <<"fulfilled", "fulfilled", "addOrder rejected">>)
    /\ Len(cart) > 0
    /\ ~isSubmitting
    /\ submissions = <<>>

----------------------------------------------------------------------------
Succeeded == lastOp' = Op("onSubmit", "Order received!")
Caught == lastOp'.op = "onSubmit" /\ lastOp'.result = "Error"
Started == lastOp' = Op("onSubmit", "sending")

\* C16: isSubmitting goes from FALSE to TRUE only when onSubmit starts a
\* submission and back to FALSE only when that submission succeeds or fails;
\* the step in which the sends and the log write have all resolved, and the
\* step in which one of them rejects, leave isSubmitting FALSE, the former
\* with the cart empty and the latter with the cart as it was; and the
\* sends are called only by an onSubmit the user starts with nothing in
\* flight.
C16_SubmissionFlow ==
    [][ /\ (~isSubmitting /\ isSubmitting') => Started
        /\ (isSubmitting /\ ~isSubmitting') => (Succeeded \/ Caught)
        /\ Succeeded => (~isSubmitting' /\ submissions' = <<>> /\ cart' = <<>>)
        /\ Caught => (~isSubmitting' /\ submissions' = <<>> /\ cart' = cart)
        /\ calls' # {} /\ calls' # {"addOrder"}
              => (Started /\ ~isSubmitting /\ submissions = <<>>)
      ]_vars

----------------------------------------------------------------------------
\* what the claim lets one line add to the total: price times quantity, and
\* 0 when the price is missing or is not a number
Contribution(line) ==
    IF line.price.kind = "number" THEN line.price.value * line.quantity
    ELSE IF line.price.kind = "numeric string" THEN line.price.value * line.quantity
    ELSE 0

RECURSIVE SumOfLines(_)
SumOfLines(c) ==
    IF c = <<>> THEN 0 ELSE Contribution(Head(c)) + SumOfLines(Tail(c))

\* C17: the total formatOrderDetails computes is the sum over all cart lines
\* of price times quantity, a missing or non-numeric price counting as 0,
\* for the cart on the page and for the cart the function was called with.
C17_TotalIsSumOfLines ==
    /\ formatOrderDetails(cart).cartTotal = Num(SumOfLines(cart))
    /\ probe.fn = "formatOrderDetails"
          => probe.result[1].cartTotal = Num(SumOfLines(probe.arg[1]))

----------------------------------------------------------------------------
\* C18: an addToCart step for an in-stock item whose stock is zero, or whose
\* cart line already holds as many as the stock, leaves the cart as it was.
C18_RejectedAddLeavesCart ==
    [][ \A i \in 1..Len(menuItems) :
          LET item == menuItems[i]
              line == FindCartItem(cart, item.id)
          IN  ( /\ addToCart(item)
                /\ ~item.madeToOrder
                /\ \/ item.stock = 0
                   \/ line # {} /\ The(line).quantity = item.stock )
                 => cart' = cart ]_vars

\* C18 witness: addToCart was refused on a cart holding the whole stock of
\* the item.
C18_Witness ==
    /\ lastOp = Op("addToCart", "Stock limit reached")
    /\ QuantityOf(cart, "a") = The(FindMenuItem("a")).stock

\* C19: an updateQuantity(id, q) step with q >= 1 on a line of an in-stock
\* item leaves the cart as it was when q exceeds the item's stock, and
\* otherwise leaves a cart of the same lines in the same order, with q as
\* the quantity of the lines of that id and every other line as it was.
C19_UpdateWithinStock ==
    [][ \A i \in 1..Len(cart) : \A q \in 1..(cart[i].quantity + 1) :
          LET id == cart[i].id
              item == FindMenuItem(id)
          IN  (updateQuantity(id, q) /\ item # {} /\ IsInStockLine(cart[i]))
                 => IF q > The(item).stock
                    THEN cart' = cart
                    ELSE /\ Len(cart') = Len(cart)
                         /\ \A j \in 1..Len(cart) :
                               IF cart[j].id = id
                               THEN /\ cart'[j].quantity = q
                                    /\ cart'[j].id = id
                                    /\ cart'[j].name = cart[j].name
                                    /\ cart'[j].price = cart[j].price
                               ELSE cart'[j] = cart[j] ]_vars

\* C19 witness: updateQuantity was refused for exceeding the stock, the line
\* still at its old quantity.
C19_Witness ==
    /\ lastOp = Op("updateQuantity", "Stock limit reached")
    /\ QuantityOf(cart, "a") = The(FindMenuItem("a")).stock

\* the lines of a cart that are not of the given id, in their order
RECURSIVE LinesOtherThan(_, _)
LinesOtherThan(c, id) ==
    IF c = <<>> THEN <<>>
    ELSE IF Head(c).id = id THEN LinesOtherThan(Tail(c), id)
         ELSE <<Head(c)>> \o LinesOtherThan(Tail(c), id)

\* C20: for every cart, every id and every q < 1, an updateQuantity(id, q)
\* step and a removeFromCart(id) step end in the same cart: the lines not of
\* that id, as the next render's effect leaves them.
C20_BelowOneIsRemove ==
    [][ \A id \in LineIds :
          /\ \A q \in (-1)..0 :
                updateQuantity(id, q) => cart' = ItemParamEffect(LinesOtherThan(cart, id))
          /\ removeFromCart(id) => cart' = ItemParamEffect(LinesOtherThan(cart, id))
      ]_vars

\* C20 witness: updateQuantity took its removal branch on a page whose URL
\* names no item, and the cart holds one line.
C20_Witness ==
    /\ lastOp = Op("updateQuantity", "removed")
    /\ Len(cart) = 1
    /\ searchItem = {}

----------------------------------------------------------------------------
\* C21: a removeFromCart(id) step leaves a cart that holds no line of id and
\* every other line as it was, and a line of an id the cart does not hold
\* appears only by an addToCart of the user.
C21_RemovedStaysRemoved ==
    [][ /\ \A i \in 1..Len(cart) :
             removeFromCart(cart[i].id)
                => /\ cart[i].id \notin CartIds(cart')
                   /\ cart' = LinesOtherThan(cart, cart[i].id)
        /\ CartIds(cart') \ CartIds(cart) # {} => lastOp'.op = "addToCart"
      ]_vars

----------------------------------------------------------------------------
\* C22: no cart operation ends in an error thrown out of its handler, also
\* for a line whose item the menu no longer has.
C22_NoUnhandledError ==
    lastOp.op \in CartOps => lastOp.result # "TypeError"

----------------------------------------------------------------------------
\* C23: an addToCart step that no stock test refuses appends one line of
\* quantity 1 when the cart holds no line of the item, and otherwise adds
\* exactly 1 to the quantity of the item's line; every other line, and the
\* order of the lines, is as it was.
C23_AddAppendsOrIncrements ==
    [][ \A i \in 1..Len(menuItems) :
          LET item == menuItems[i]
          IN  (addToCart(item) /\ lastOp'.result = "Item added to cart")
                 => IF item.id \notin CartIds(cart)
                    THEN /\ Len(cart') = Len(cart) + 1
                         /\ SubSeq(cart', 1, Len(cart)) = cart
                         /\ cart'[Len(cart')].id = item.id
                         /\ cart'[Len(cart')].quantity = 1
                    ELSE /\ Len(cart') = Len(cart)
                         /\ \A j \in 1..Len(cart) :
                               IF cart[j].id = item.id
                               THEN /\ cart'[j].id = item.id
                                    /\ cart'[j].quantity = cart[j].quantity + 1
                                    /\ cart'[j].name = cart[j].name
                                    /\ cart'[j].price = cart[j].price
                               ELSE cart'[j] = cart[j] ]_vars

\* C23 witness: addToCart has raised the quantity of the in-stock item's line
\* to 2.
C23_Witness ==
    /\ lastOp = Op("addToCart", "Item added to cart")
    /\ QuantityOf(cart, "a") = 2
    /\ Len(cart) > 1

----------------------------------------------------------------------------
\* the lines of the order a submission handed to addOrder
OrderLines(sub) ==
    LET order == The(sub.order)
    IN  Elements(order.inStockItems) \cup Elements(order.madeToOrderItems)

\* C24: when the step that completes a successful submission empties the
\* cart, every line it removes is, as it stands, a line of the order that
\* submission handed to the order log.
C24_ClearedLinesWereOrdered ==
    [][ Succeeded =>
          \A i \in 1..Len(submissions) :
              submissions[i].order # {}
                 => Elements(cart) \subseteq OrderLines(submissions[i]) ]_vars

----------------------------------------------------------------------------
\* C25: formatOrderDetails puts every cart line in exactly one of its two
\* sublists, so that the totals of the two sublists add up to the total it
\* reports.
C25_EveryLineInOneSublist ==
    LET details == formatOrderDetails(cart)
    IN  /\ \A i \in 1..Len(cart) :
              IsInStockLine(cart[i]) # IsMadeToOrderLine(cart[i])
        /\ Len(details.inStockItems) + Len(details.madeToOrderItems) = Len(cart)
        /\ Plus(CartTotal(details.inStockItems), CartTotal(details.madeToOrderItems))
              = details.cartTotal

----------------------------------------------------------------------------
\* C26: in every reachable state the cart holds at most one line of each id
\* and every line's quantity is an integer of at least 1, whatever sequence
\* of addToCart, updateQuantity and removeFromCart the user performs and
\* whatever item the URL names.
C26_OneLinePerIdQuantityPositive ==
    /\ Cardinality(CartIds(cart)) = Len(cart)
    /\ \A i \in 1..Len(cart) : cart[i].quantity \in Nat /\ cart[i].quantity >= 1

\* C26 witness: the user took the quantity of the item the URL names below
\* 1, the effect put the line back, and the cart holds a second line.
C26_Witness ==
    /\ lastOp = Op("updateQuantity", "removed")
    /\ searchItem # {}
    /\ searchItem \subseteq CartIds(cart)
    /\ Len(cart) = 2

----------------------------------------------------------------------------
\* a Saturday at least 3 and at most 10 days after today
SaturdayWithinTen(d) == getDay(d) = 6 /\ d >= today + 3 /\ d <= today + 10

\* the date the module's getAvailablePickupDates(true) has returned
EligibleByCall ==
    IF probe.fn = "getAvailablePickupDates"
    THEN IF probe.arg = <<TRUE>> THEN {probe.result[1]} ELSE {}
    ELSE {}

\* the Saturdays OrderPage's getAvailablePickupDates accepts, of the days
\* browsed, for a cart with made-to-order lines
EligibleSaturdays ==
    IF hasMadeToOrderItems
    THEN { d \in CalendarDays : OrderPage_getAvailablePickupDates(d) }
    ELSE {}

============================================================================
